---- MODULE Spec2Model ----
(***************************************************************************)
(* koishi-plugin-connect-chatbridge: the relay between a chat platform and *)
(* a game server over one WebSocket endpoint.                              *)
(*                                                                         *)
(* Spec     models src/src/index.ts (the current TypeScript source).       *)
(* SpecLib  models the first module of src/lib/index.js (lines 1-324), the *)
(*          variant that still has passive (queued) delivery.              *)
(***************************************************************************)
EXTENDS Integers, Sequences, FiniteSets, TLC

(***************************************************************************)
(* Bounds of the model.                                                    *)
(***************************************************************************)
NumSockets == 2       \* WebSocket connections alive at once (server.clients.size)
MaxInflight == 2      \* broadcast promises pending at once
MaxTimers == 2        \* setTimeout callbacks pending at once
MaxNotices == 2       \* cap of the notice counter
MaxMsgs == 2          \* messages ever appended to the pending queue
MaxParts == 3         \* space-separated parts of a game message (SpecFrames)
MaxChats == 2         \* chat-event handlers suspended at once (SpecChat)
MaxWords == 2         \* space-separated words of a chat message (SpecChat)
LibSockets == 1       \* connections alive at once under SpecLib

Sockets == 1..NumSockets   \* positions in server.clients

(***************************************************************************)
(* Configuration values (ASCII names for the schema's fields).             *)
(*   enable       config.enable                                            *)
(*   fallback     config.使用备用频道                                      *)
(*   schedule     config.启用定时任务                                      *)
(*   trigger      config.指令转发MC消息                                    *)
(***************************************************************************)
ConfigToken == "secret"              \* config.token
Tokens == {"secret", "wrong", "absent"}   \* access_token of a request
PrimaryChannel == "primary"          \* config.频道列表['qqguild'] at start
FallbackChannel == "fallback"        \* config.备用转发频道
Absent == "absent"                   \* a key that is not in 频道列表
Platforms == {"qqguild", "other"}
TriggerWord == "pd"                  \* config.游戏内触发指令

(***************************************************************************)
(* Game messages: the text of a frame as its space-separated parts.        *)
(* "[S]" stands for a "[<tag>]" part and "<A>" for a "<name>" part.        *)
(***************************************************************************)
Msgs ==
  { <<"hi">>,
    <<"[S]", "<A>", "pd", "hi">>,
    <<"[S]", "<A>", "hi">>,
    <<"[S]", "<A>">> }

VARIABLES
  config,        \* the configuration the plugin was applied with
  channelList,   \* config.频道列表: platform -> channel id (or Absent)
  phase,         \* "init" | "ready" | "disposed"
  server,        \* "null" | "listening" | "closed"
  clients,       \* server.clients in insertion order: [st, ok, listener]
  max,           \* usingFallback
  max_,          \* fallbackExhausted
  hasExecuted,   \* the suspension notice has been sent
  timerId,       \* the pending timer the stored handle refers to, or "none"
  timers,        \* the other pending setTimeout callbacks: kind -> count
  inflight,      \* pending broadcast promises: qqguild target -> count
  messageQueue,  \* pending queue
  onceDone,      \* which ctx.once handlers have run
  notices,       \* episode history: submissions and notices
  limitStreak,   \* consecutive rate-limit errors since the last reset/success
  trySendCalls,  \* trySend() invocations made by the last handler
  result,        \* history, not kept under Spec: the frame the last
                 \* handler received, the text it gave to ctx.broadcast,
                 \* the exception it met and what became of its client.send
  chats,         \* chat-event handlers suspended in 'await processMessage'
  \* src/lib/index.js only (passive delivery)
  bot,           \* "null" | "undefined" | "ok": the bot the module holds
  channel,       \* config.收发消息的频道
  sessionFlag,   \* awaitingFlush: a flush timer is armed or a pass runs
  triggerSuccess,\* the middleware is draining the queue
  errorCount,    \* sink errors seen
  flushTimers,   \* pending ctx.setTimeout callbacks
  pass,          \* the trySend() call suspended on an awaited broadcast
  drain,         \* the middleware suspended on an awaited session.send
  nsub,          \* history: messages appended to the queue so far
  handed,        \* history: the queued messages given to session.send and
                 \* to bot.broadcast, and the first fault seen
  cycle          \* history of the current flush cycle

\* the variables only src/lib/index.js has
libVars == << bot, channel, sessionFlag, triggerSuccess, errorCount, flushTimers, pass,
              drain, nsub, handed, cycle >>

\* the variables only src/src/index.ts has
tsVars == << timerId, timers, onceDone, limitStreak, trySendCalls,
            result, chats >>

vars == << config, channelList, phase, server, clients, max, max_,
           hasExecuted, timerId, timers, inflight, messageQueue,
           onceDone, notices, limitStreak, trySendCalls, result, chats, bot,
           channel,
           sessionFlag, triggerSuccess, errorCount, flushTimers, pass, drain, nsub,
           handed, cycle >>

(***************************************************************************)
(* Channel list helpers.                                                   *)
(***************************************************************************)
\* channels = Object.entries(config.频道列表).map(...)
Channels(list) == { <<p, list[p]>> : p \in {q \in Platforms : list[q] # Absent} }

ChangeChannel(list, platformName, value) == [list EXCEPT ![platformName] = value]

DeleteChannel(list, platformName) == [list EXCEPT ![platformName] = Absent]

\* addChannel only reads the entry and recomputes channels
AddChannel(list, platformName) == list

\* tempChannel = config.频道列表['qqguild'] taken at apply time
tempChannel == PrimaryChannel

(***************************************************************************)
(* server.clients helpers.                                                 *)
(***************************************************************************)
RemoveAt(q, i) == SubSeq(q, 1, i - 1) \o SubSeq(q, i + 1, Len(q))

(***************************************************************************)
(* Message shape: /\[.*?\] <.*?>/ and the rewriting of the parts.          *)
(***************************************************************************)
IsTagPart(p) == p = "[S]"
IsNamePart(p) == p = "<A>"

\* /\[.*?\] <.*?>/.test(sendMessage)
MatchesPattern(m) ==
  \E i \in 1..(Len(m) - 1) : IsTagPart(m[i]) /\ IsNamePart(m[i + 1])

\* part.match(/<(.+?)>/) is null: reading [1] throws
RewriteThrows(m) == Len(m) > 2 /\ ~IsNamePart(m[2])

RECURSIVE Flatten(_)
Flatten(ss) == IF ss = <<>> THEN <<>> ELSE Head(ss) \o Flatten(Tail(ss))

\* the first part left out as well
ModifiedMessageNoTag(m, trigger) ==
  Flatten([ i \in 1..Len(m) |->
              IF i = 2 THEN << "A said: " >>
              ELSE IF i > 3 \/ (i = 3 /\ ~trigger) THEN << m[i] >>
              ELSE <<>> ])

\* messageParts.map(...).filter(Boolean)  (joined with ' ' on the wire)
ModifiedMessage(m, trigger) ==
  Flatten([ i \in 1..Len(m) |->
              IF i = 2 THEN << "A said: " >>
              ELSE IF i # 3 \/ ~trigger THEN << m[i] >>
              ELSE <<>> ])

\* the trigger word not compared
TriggerIgnored(m, trigger) == TRUE

\* !config.指令转发MC消息 || messageParts[2] === config.游戏内触发指令
\* (messageParts[2] of a shorter message is undefined)
TriggerPasses(m, trigger) == ~trigger \/ (Len(m) > 2 /\ m[3] = TriggerWord)

\* the length not tested
AnyLength(m) == TRUE

\* if (messageParts.length > 2)
LongEnough(m) == Len(m) > 2

\* the verbatim branch taken only with trigger mode disabled
ForwardTextGated(m, trigger) ==
  IF ~MatchesPattern(m) THEN IF trigger THEN <<>> ELSE << m >>
  ELSE IF LongEnough(m) /\ TriggerPasses(m, trigger)
       THEN << ModifiedMessage(m, trigger) >>
       ELSE <<>>

\* the text handed to broadcastMessage, <<>> when nothing is forwarded
ForwardText(m, trigger) ==
  IF ~MatchesPattern(m) THEN << m >>
  ELSE IF LongEnough(m) /\ TriggerPasses(m, trigger)
       THEN << ModifiedMessage(m, trigger) >>
       ELSE <<>>

(***************************************************************************)
(* Delivery flags.                                                         *)
(***************************************************************************)
\* the guard left out
SuspendedGuardMissing(m, m_) == FALSE

\* if (max && max_)
Suspended(m, m_) == m /\ m_

\* the flag not consulted
NoticeDueAlways(executed) == TRUE

\* if (!hasExecuted)
NoticeDue(executed) == ~executed

\* the test inverted
FirstLimitInverted(m) == m

\* if (!max)   -- the first rate-limit error
FirstLimit(m) == ~m

\* only the presence of the parameter tested
TokenPresent(tok) == tok # "absent"

\* if (config.token === accessToken)
TokenOk(tok) == tok = ConfigToken

(***************************************************************************)
(* Timers.  Pending callbacks of the same kind are interchangeable, so the *)
(* state keeps the kind of the one the stored handle refers to (timerId)   *)
(* and counts the others.                                                  *)
(***************************************************************************)
TimerKinds == {"reset", "start", "stop"}

Pending(ts, id) ==
  ts["reset"] + ts["start"] + ts["stop"] + (IF id = "none" THEN 0 ELSE 1)

CanArm == Pending(timers, timerId) < MaxTimers

\* timerId = setTimeout(cb): the previous callback stays pending
ArmOthers(ts, id) == IF id = "none" THEN ts ELSE [ ts EXCEPT ![id] = @ + 1 ]

\* clearTimeout(timerId): a handle whose callback has run clears nothing
ClearTimeout(id) == "none"

\* if (now >= stopTime && now <= startTime)
InStartBranch(now, startT, stopT) == now >= stopT /\ now <= startT

DaySlots == 4
Times == 0..(DaySlots - 1)
SchedulePairs == { <<0, 1>>, <<3, 1>> }    \* <<stop, start>>

\* scheduleTasks(): the timer it arms
ScheduleKind(now) ==
  IF InStartBranch(now, config.startT, config.stopT) THEN "start" ELSE "stop"

\* startTime.getTime() - now.getTime()
TimeUntilNextStart(now, startT) == startT - now

\* stopTime.setDate(stopTime.getDate() + 1) - now.getTime()
TimeUntilNextStop(now, stopT) == stopT + DaySlots - now

\* scheduleTasks(): the delay given to setTimeout
ScheduleDelay(now) ==
  IF InStartBranch(now, config.startT, config.stopT)
  THEN TimeUntilNextStart(now, config.startT)
  ELSE TimeUntilNextStop(now, config.stopT)

(***************************************************************************)
(* Initial state: the closure variables of apply().                        *)
(***************************************************************************)
Configs ==
  { c \in [ enable : BOOLEAN, fallback : BOOLEAN, schedule : BOOLEAN,
            trigger : BOOLEAN, stopT : Times, startT : Times ] :
      /\ <<c.stopT, c.startT>> \in SchedulePairs
      /\ (~c.schedule => <<c.stopT, c.startT>> = <<0, 1>>) }

NoNotices == [ subs |-> 0, sent |-> 0, delivered |-> 0 ]

\* the handler did not call scheduleTasks
NoArm == [ kind |-> "none", now |-> 0, delay |-> 0 ]

\* the handler was not the chat middleware
NoChat == [ msg |-> <<>>, packet |-> <<>>, called |-> FALSE, net |-> "none" ]

\* a handler that made no broadcast call and met no exception
NoResult ==
  [ frame |-> <<>>, sunk |-> <<>>, error |-> "none", sent |-> "none",
    chat |-> NoChat, armed |-> NoArm ]

\* the handlers' results are not recorded
Unobserved ==
  [ frame |-> <<>>, sunk |-> <<>>, error |-> "unobserved", sent |-> "none",
    chat |-> NoChat, armed |-> NoArm ]

Observe(r) == IF result = Unobserved THEN Unobserved ELSE r

\* a handler whose scheduleTasks() call at time now armed a timer
Armed(now) ==
  [ NoResult EXCEPT !.armed = [ kind |-> ScheduleKind(now), now |-> now,
                                delay |-> ScheduleDelay(now) ] ]

\* no trySend() call is suspended
NoPass == [ n |-> 0, i |-> 0, upto |-> 0 ]

\* no flush cycle has started
NoCycle ==
  [ first |-> 0, last |-> 0, ncalls |-> 0, inorder |-> TRUE, passes |-> 0,
    drained |-> FALSE, failed |-> FALSE, done |-> FALSE, storm |-> FALSE ]

InitState ==
  /\ channelList = [ p \in Platforms |->
                       IF p = "qqguild" THEN PrimaryChannel ELSE Absent ]
  /\ phase = "init"
  /\ server = "null"
  /\ clients = <<>>
  /\ max = FALSE
  /\ max_ = FALSE
  /\ hasExecuted = FALSE
  /\ timerId = "none"
  /\ timers = [ k \in TimerKinds |-> 0 ]
  /\ inflight = [ c \in {PrimaryChannel, FallbackChannel, Absent} |-> 0 ]
  /\ messageQueue = <<>>
  /\ onceDone = {}
  /\ notices = NoNotices
  /\ limitStreak = 0
  /\ trySendCalls = 0
  /\ result = Unobserved
  /\ chats = 0
  /\ bot = "null"
  /\ channel = PrimaryChannel
  /\ sessionFlag = FALSE
  /\ triggerSuccess = FALSE
  /\ errorCount = 0
  /\ flushTimers = 0
  /\ pass = NoPass
  /\ drain = "idle"
  /\ nsub = 0
  /\ handed = [ sent |-> {}, cast |-> {}, fault |-> "none" ]
  /\ cycle = NoCycle

\* no daily schedule (启用定时任务 = false)
Init == config \in { c \in Configs : ~c.schedule } /\ InitState

(***************************************************************************)
(* Pieces shared by the handlers.                                          *)
(***************************************************************************)
Bump(n) == IF n < MaxNotices THEN n + 1 ELSE n

\* closeServer(): terminates the first client only, then server.close()
CloseServerClients ==
  IF server # "null" /\ Len(clients) > 0
  THEN [ clients EXCEPT ![1].st = "terminated" ]
  ELSE clients

CloseServerState == IF server # "null" THEN "closed" ELSE server

\* a new suspension episode starts when max && max_ becomes true
EpisodeNotices(m, m_, n) ==
  IF ~(max /\ max_) /\ (m /\ m_) THEN NoNotices ELSE n

(***************************************************************************)
(* ctx.on('ready').  server is null when the event fires, so the leading   *)
(* closeServer() is skipped.                                               *)
(***************************************************************************)
Ready(bots) ==
  /\ phase = "init"
  /\ phase' = "ready"
  /\ IF config.enable
     THEN /\ server' = "listening"
          /\ IF bots
             THEN /\ max' = max /\ max_' = max_
                  /\ IF config.schedule
                     THEN /\ CanArm
                          /\ timers' = ArmOthers(timers, timerId)
                          /\ \E now \in Times :
                               /\ timerId' = ScheduleKind(now)
                               /\ result' = Observe(Armed(now))
                     ELSE UNCHANGED << timers, timerId >>
             ELSE /\ max' = TRUE /\ max_' = TRUE
                  /\ UNCHANGED << timers, timerId >>
     ELSE UNCHANGED << server, max, max_, timers, timerId >>
  /\ notices' = EpisodeNotices(max', max_', notices)
  /\ trySendCalls' = 0
  /\ IF config.enable /\ bots /\ config.schedule THEN TRUE
     ELSE result' = Observe(NoResult)
  /\ chats' = chats
  /\ UNCHANGED << config, channelList, clients, hasExecuted, inflight,
                  messageQueue, onceDone, limitStreak >>
  /\ UNCHANGED libVars

(***************************************************************************)
(* ctx.on('dispose')                                                       *)
(***************************************************************************)
Dispose ==
  /\ phase = "ready"
  /\ phase' = "disposed"
  /\ IF server # "null"
     THEN /\ timerId' = ClearTimeout(timerId)
          /\ clients' = CloseServerClients
          /\ server' = CloseServerState
     ELSE UNCHANGED << timerId, clients, server >>
  /\ trySendCalls' = 0
  /\ result' = Observe(NoResult)
  /\ chats' = chats
  /\ UNCHANGED << config, channelList, max, max_, hasExecuted,
                  timers, inflight, messageQueue, onceDone, notices,
                  limitStreak >>
  /\ UNCHANGED libVars

(***************************************************************************)
(* ctx.once('login-added') and ctx.once('login-removed')                   *)
(***************************************************************************)
LoginAdded(platform) ==
  /\ phase # "disposed"
  /\ "login-added" \notin onceDone
  /\ onceDone' = onceDone \cup {"login-added"}
  /\ channelList' = AddChannel(channelList, platform)
  /\ IF config.schedule
     THEN /\ CanArm
          /\ timers' = ArmOthers(timers, timerId)
          /\ \E now \in Times :
               /\ timerId' = ScheduleKind(now)
               /\ result' = Observe(Armed(now))
     ELSE UNCHANGED << timers, timerId >>
  /\ trySendCalls' = 0
  /\ IF config.schedule THEN TRUE ELSE result' = Observe(NoResult)
  /\ chats' = chats
  /\ UNCHANGED << config, phase, server, clients, max, max_,
                  hasExecuted, inflight, messageQueue, notices, limitStreak >>
  /\ UNCHANGED libVars

LoginRemoved(platform) ==
  /\ phase # "disposed"
  /\ "login-removed" \notin onceDone
  /\ onceDone' = onceDone \cup {"login-removed"}
  /\ channelList' = DeleteChannel(channelList, platform)
  /\ timerId' = ClearTimeout(timerId)
  /\ trySendCalls' = 0
  /\ result' = Observe(NoResult)
  /\ chats' = chats
  /\ UNCHANGED << config, phase, server, clients, max, max_,
                  hasExecuted, timers, inflight, messageQueue, notices,
                  limitStreak >>
  /\ UNCHANGED libVars

(***************************************************************************)
(* server.on('connection') and the socket's life.  ws has the connection   *)
(* in server.clients when the event fires, and removes it on 'close'.      *)
(***************************************************************************)
Connect(tok) ==
  /\ server = "listening"
  /\ Len(clients) < NumSockets
  /\ clients' = Append(clients,
                       IF TokenOk(tok)
                       THEN [ st |-> "open", ok |-> (tok = ConfigToken),
                              listener |-> TRUE ]
                       \* socket.close()
                       ELSE [ st |-> "closing", ok |-> (tok = ConfigToken),
                              listener |-> FALSE ])
  /\ trySendCalls' = 0
  /\ result' = Observe(NoResult)
  /\ chats' = chats
  /\ UNCHANGED << config, channelList, phase, server, max, max_, hasExecuted,
                  timerId, timers, inflight, messageQueue, onceDone, notices,
                  limitStreak >>
  /\ UNCHANGED libVars

\* the connection ends: ws emits 'close' and drops it from server.clients
SocketClosed(s) ==
  /\ s \in 1..Len(clients)
  /\ clients' = RemoveAt(clients, s)
  /\ trySendCalls' = 0
  /\ result' = Observe(NoResult)
  /\ chats' = chats
  /\ UNCHANGED << config, channelList, phase, server, max, max_, hasExecuted,
                  timerId, timers, inflight, messageQueue, onceDone, notices,
                  limitStreak >>
  /\ UNCHANGED libVars

(***************************************************************************)
(* sendMessageToClients(packet): client.send on the first entry of         *)
(* server.clients.  No entry: reading .send of undefined throws.  An entry *)
(* that is no longer open: ws either throws or discards the data,          *)
(* depending on its version.                                               *)
(***************************************************************************)
SendOutcomes(cl) ==
  IF Len(cl) = 0 THEN {"threw"}
  ELSE IF cl[1].st = "open" THEN {"delivered"}
  ELSE {"dropped", "threw"}

\* what a frame carries: a JSON text with its message, or something else
BadJson == <<"badjson">>     \* a text that JSON.parse rejects
Binary == <<"binary">>       \* an ArrayBuffer
Frames == Msgs \cup { BadJson, Binary }
\* an ArrayBuffer taken for a text
IsTextOrBinary(f) == f # BadJson

\* typeof receivedData === 'string', and JSON.parse returns
IsText(f) == f \notin { BadJson, Binary }

(***************************************************************************)
(* socket 'message' listener and processWebSocketMessage, up to its first  *)
(* await (the broadcast call is made; its result arrives later).  A frame  *)
(* on a connection without listener, a binary frame and a frame that is    *)
(* not JSON (JSON.parse throws in the listener) change nothing.            *)
(***************************************************************************)
Frame(s, m) ==
  /\ s \in 1..Len(clients)
  /\ clients[s].st \in {"open", "closing"}
  /\ LET isText == clients[s].listener /\ IsText(m)
         susp == isText /\ Suspended(max, max_)
         notice == susp /\ NoticeDue(hasExecuted)
         throws == isText /\ ~susp /\ MatchesPattern(m) /\ RewriteThrows(m)
         texts == IF isText /\ ~susp /\ ~throws
                  THEN ForwardText(m, config.trigger) ELSE <<>>
         target == channelList["qqguild"]
     IN
     \E out \in IF notice THEN SendOutcomes(clients) ELSE {"none"} :
     /\ hasExecuted' = IF notice /\ out # "threw" THEN TRUE ELSE hasExecuted
     /\ notices' =
          [ subs |-> IF susp THEN Bump(notices.subs) ELSE notices.subs,
            sent |-> IF notice /\ out # "threw"
                     THEN Bump(notices.sent) ELSE notices.sent,
            delivered |-> IF notice /\ out = "delivered"
                          THEN Bump(notices.delivered)
                          ELSE notices.delivered ]
     /\ IF texts # <<>>
        THEN /\ inflight[PrimaryChannel] + inflight[FallbackChannel]
                  + inflight[Absent] < MaxInflight
             \* await ctx.broadcast(channels, `${message_}`)
             /\ inflight' = [ inflight EXCEPT ![target] = @ + 1 ]
        ELSE inflight' = inflight
     /\ result' =
          Observe([ frame |-> m,
                    sunk |-> texts,
                    error |-> IF clients[s].listener /\ m = BadJson
                              THEN "escaped"
                              ELSE IF throws \/ out = "threw" THEN "caught"
                              ELSE "none",
                    sent |-> out,
                    chat |-> NoChat,
                    armed |-> NoArm ])
  /\ trySendCalls' = 0
  /\ chats' = chats
  /\ UNCHANGED << config, channelList, phase, server, clients, max,
                  max_, timerId, timers, messageQueue, onceDone, limitStreak >>
  /\ UNCHANGED libVars

(***************************************************************************)
(* ctx.middleware.  The handler goes on only with a socket in              *)
(* server.clients and on the tracked channel, and then awaits              *)
(* processMessage (the short-link request); otherwise it calls next().     *)
(* When processMessage has returned, the packet is given to                *)
(* sendMessageToClients if the chat-side trigger test passes; server and   *)
(* server.clients are not read again in between.                           *)
(***************************************************************************)
ChatChannels == { PrimaryChannel, FallbackChannel }

\* session.event._data.d.channel_id === (tempChannel || config.备用转发频道)
Tracked(ch) == ch = tempChannel

ChatArrives(ch) ==
  /\ phase # "disposed"
  /\ IF server # "null" /\ Len(clients) > 0 /\ Tracked(ch)
     THEN /\ chats < MaxChats
          /\ chats' = chats + 1
     ELSE chats' = chats                      \* return next()
  /\ trySendCalls' = 0
  /\ result' = Observe(NoResult)
  /\ UNCHANGED << config, channelList, phase, server, clients, max, max_,
                  hasExecuted, timerId, timers, inflight, messageQueue,
                  onceDone, notices, limitStreak >>
  /\ UNCHANGED libVars

(***************************************************************************)
(* A chat message: one img element, or one text element given as its      *)
(* space-separated words, each link occurring once.  "U1" and "U2" stand   *)
(* for texts that linkPattern matches, "[link]" for "[链接]", "[img]" for  *)
(* "[表情/图片]" and "omitted" for "省略".                                 *)
(***************************************************************************)
ChatTrigger == "mc"                  \* config.频道内触发指令
Urls == { "U1", "U2" }
Words == { ChatTrigger, "hi" } \cup Urls
ImgMsg == << "IMG" >>
TextMsgs ==
  { w \in UNION { [ 1..n -> Words ] : n \in 1..MaxWords } :
      \A i, j \in 1..Len(w) : (i # j /\ w[i] \in Urls) => w[i] # w[j] }
ChatMsgs == TextMsgs \cup { ImgMsg }

\* what the request to the short-link service comes to
NetOutcomes == { "short", "apierror", "httpfail" }
ShortLinkModes == { "true", "false", "delete" }      \* config.短链接服务

\* the request made in every mode but 'false'
GenerateShortUrlEager(mode, url, net) ==
  IF mode = "false"
  THEN [ threw |-> FALSE, value |-> url, called |-> FALSE ]
  ELSE [ threw |-> net # "short",
         value |-> IF mode = "delete" THEN "omitted" ELSE "short",
         called |-> TRUE ]

\* a failed request answered with the link itself
GenerateShortUrlLenient(mode, url, net) ==
  IF mode = "true"
  THEN [ threw |-> FALSE,
         value |-> IF net = "short" THEN "short" ELSE url,
         called |-> TRUE ]
  ELSE [ threw |-> FALSE,
         value |-> IF mode = "delete" THEN "omitted" ELSE url,
         called |-> FALSE ]

\* generateShortUrl(originalUrl): whether it throws, what it returns, and
\* whether axios.post was called
GenerateShortUrl(mode, url, net) ==
  IF mode = "true"
  THEN [ threw |-> net # "short", value |-> "short", called |-> TRUE ]
  ELSE [ threw |-> FALSE,
         value |-> IF mode = "delete" THEN "omitted" ELSE url,
         called |-> FALSE ]

\* the links of a message, in the order processElement resolves them
Links(msg) ==
  IF msg = ImgMsg THEN << "IMG" >>
  ELSE SelectSeq(msg, LAMBDA w : w \in Urls)

\* processElement: the words of the element's text after the replacements
\* (` [链接] ${shortUrl} ` for a link, ` [表情/图片] ${shortUrl} ` for img)
ProcessElement(msg, mode, net) ==
  IF msg = ImgMsg
  THEN << "", "[img]", GenerateShortUrl(mode, "IMG", net).value, "" >>
  ELSE Flatten([ i \in 1..Len(msg) |->
                   IF msg[i] \in Urls
                   THEN << "", "[link]",
                           GenerateShortUrl(mode, msg[i], net).value, "" >>
                   ELSE << msg[i] >> ])

\* attrsTemp.slice(attrsTemp.indexOf(' ') + 1): without a space the text is
\* kept whole
SliceFirst(text) == IF Len(text) > 1 THEN Tail(text) ELSE text

\* processMessage(session.event)
ProcessMessage(msg, mode, chatTrigger, net) ==
  [ threw |-> \E i \in 1..Len(Links(msg)) :
                 GenerateShortUrl(mode, Links(msg)[i], net).threw,
    called |-> \E i \in 1..Len(Links(msg)) :
                 GenerateShortUrl(mode, Links(msg)[i], net).called,
    text |-> IF chatTrigger
             THEN SliceFirst(ProcessElement(msg, mode, net))
             ELSE ProcessElement(msg, mode, net) ]

\* the trigger command not compared
ChatTriggerIgnored(msg, mode, chatTrigger, net) == TRUE

\* !config.指令转发频道消息 ||
\*   session.elements[0].attrs.content.split(' ')[0] === config.频道内触发指令
\* (read after processElement has rewritten attrs.content)
ChatTriggerPasses(msg, mode, chatTrigger, net) ==
  ~chatTrigger \/ (msg # ImgMsg
                     /\ Head(ProcessElement(msg, mode, net)) = ChatTrigger)

\* attrs.content of an img element is undefined: .split throws
ChatTestThrows(msg, chatTrigger) == chatTrigger /\ msg = ImgMsg

\* the middleware after 'await processMessage': the packet is made and,
\* the trigger test passing, given to sendMessageToClients
ChatResumes(msg, net) ==
  /\ chats > 0
  /\ chats' = chats - 1
  /\ LET norm == ProcessMessage(msg, config.shortLink, config.chatTrigger,
                                net)
         sends == /\ ~norm.threw
                  /\ ~ChatTestThrows(msg, config.chatTrigger)
                  /\ ChatTriggerPasses(msg, config.shortLink,
                                       config.chatTrigger, net)
     IN
     \E out \in IF sends THEN SendOutcomes(clients) ELSE {"none"} :
       result' =
         Observe([ frame |-> <<>>,
                   sunk |-> <<>>,
                   error |-> IF norm.threw THEN "resolve"
                             ELSE IF ChatTestThrows(msg, config.chatTrigger)
                                     \/ out = "threw"
                             THEN "escaped"
                             ELSE "none",
                   sent |-> out,
                   chat |-> [ msg |-> msg,
                              packet |-> IF sends THEN << norm.text >>
                                         ELSE <<>>,
                              called |-> norm.called,
                              \* what the short-link request came to
                              net |-> IF norm.called THEN net
                                      ELSE "none" ],
                   armed |-> NoArm ])
  /\ trySendCalls' = 0
  /\ UNCHANGED << config, channelList, phase, server, clients, max, max_,
                  hasExecuted, timerId, timers, inflight, messageQueue,
                  onceDone, notices, limitStreak >>
  /\ UNCHANGED libVars

(***************************************************************************)
(* The awaited broadcast settles; a rejection runs handleError.            *)
(***************************************************************************)
Outcomes == {"ok", "limit", "sink", "other"}

\* handleError, the branch of error.message.includes('限制')
LimitChannels(list, first) ==
  IF config.fallback
  THEN IF first
       THEN ChangeChannel(list, "qqguild", FallbackChannel)
       ELSE DeleteChannel(ChangeChannel(list, "qqguild", FallbackChannel),
                          "qqguild")
  ELSE DeleteChannel(list, "qqguild")

BroadcastDone(c, outcome) ==
  /\ inflight[c] > 0
  /\ inflight' = [ inflight EXCEPT ![c] = @ - 1 ]
  /\ result' = Observe(NoResult)
  /\ chats' = chats
  /\ IF outcome = "limit"
     THEN LET first == config.fallback /\ FirstLimit(max) IN
          /\ channelList' = LimitChannels(channelList, first)
          /\ max' = IF first THEN TRUE ELSE max
          \* trySend(): the queue is empty, nothing is awaited
          /\ trySendCalls' = IF first THEN 1 ELSE 0
          /\ messageQueue' = IF first THEN <<>> ELSE messageQueue
          /\ IF ~config.schedule
             THEN /\ CanArm                      \* resetMax()
                  /\ timers' = ArmOthers(timers, timerId)
                  /\ timerId' = "reset"
             ELSE UNCHANGED << timers, timerId >>
          /\ limitStreak' = IF limitStreak < 2 THEN limitStreak + 1 ELSE 2
     ELSE /\ limitStreak' = IF outcome = "ok" THEN 0 ELSE limitStreak
          /\ trySendCalls' = 0
          /\ UNCHANGED << channelList, max, messageQueue, timers, timerId >>
  /\ UNCHANGED << config, phase, server, clients, max_, hasExecuted,
                  onceDone, notices >>
  /\ UNCHANGED libVars

(***************************************************************************)
(* A setTimeout callback runs: resetMax's, or one of scheduleTasks'.       *)
(* tracked: it is the callback the stored handle refers to.                *)
(***************************************************************************)
TimerFires(kind, tracked) ==
  /\ IF tracked THEN timerId = kind ELSE timers[kind] > 0
  /\ LET rest == IF tracked THEN timers ELSE [ timers EXCEPT ![kind] = @ - 1 ]
         held == IF tracked THEN "none" ELSE timerId
     IN
     IF kind = "reset"
     THEN /\ channelList' = ChangeChannel(channelList, "qqguild", tempChannel)
          /\ timers' = rest
          /\ timerId' = held
          /\ limitStreak' = 0
     ELSE /\ channelList' = IF kind = "start"
                            THEN ChangeChannel(channelList, "qqguild",
                                               tempChannel)
                            ELSE DeleteChannel(channelList, "qqguild")
          \* scheduleTasks()
          /\ timers' = ArmOthers(rest, held)
          /\ \E now \in Times :
               /\ timerId' = ScheduleKind(now)
               /\ result' = Observe(Armed(now))
          /\ limitStreak' = limitStreak
  /\ trySendCalls' = 0
  /\ IF kind # "reset" THEN TRUE ELSE result' = Observe(NoResult)
  /\ chats' = chats
  /\ UNCHANGED << config, phase, server, clients, max, max_,
                  hasExecuted, inflight, messageQueue, onceDone, notices >>
  /\ UNCHANGED libVars

Next ==
  \/ \E bots \in BOOLEAN : Ready(bots)
  \/ Dispose
  \/ \E p \in Platforms : LoginAdded(p)
  \/ \E p \in Platforms : LoginRemoved(p)
  \/ \E tok \in Tokens : Connect(tok)
  \/ \E s \in Sockets : SocketClosed(s)
  \/ \E s \in Sockets, f \in Frames : Frame(s, f)
  \/ \E c \in {PrimaryChannel, FallbackChannel, Absent}, o \in Outcomes :
        BroadcastDone(c, o)
  \/ \E k \in TimerKinds, tr \in BOOLEAN : TimerFires(k, tr)

Spec == Init /\ [][Next]_vars

TypeOK ==
  /\ max \in BOOLEAN /\ max_ \in BOOLEAN /\ hasExecuted \in BOOLEAN
  /\ phase \in {"init", "ready", "disposed"}
  /\ server \in {"null", "listening", "closed"}
  /\ timerId \in TimerKinds \cup {"none"}
  /\ Pending(timers, timerId) <= MaxTimers
  /\ messageQueue = <<>>
  /\ chats \in 0..MaxChats

(***************************************************************************)
(* Claims about src/src/index.ts, checked under Spec.                      *)
(***************************************************************************)
\* A frame reaches processWebSocketMessage: a JSON text on a connection
\* that has the 'message' listener.
Submits(s, f) == Frame(s, f) /\ clients[s].listener /\ IsText(f)

\* C1: a connection whose access_token differs from the configured token is
\* closed at the handshake and gets no message listener, and a frame sent on
\* it makes no broadcast call, sends no notice and changes no delivery state.
C1_BadTokenNeverHandled ==
  /\ [](\A i \in 1..Len(clients) :
          ~clients[i].ok => (~clients[i].listener /\ clients[i].st # "open"))
  /\ [][\A s \in Sockets, f \in Frames :
          (Frame(s, f) /\ ~clients[s].ok)
             => UNCHANGED << inflight, messageQueue, notices, hasExecuted,
                             max, max_, channelList >>]_vars

\* a rejected connection is still in server.clients while another
\* connection is open
C1_Witness ==
  \E i, j \in 1..Len(clients) :
     /\ ~clients[i].ok /\ clients[i].st = "closing"
     /\ clients[j].ok /\ clients[j].st = "open"

\* C2: a game message submitted while max and max_ are both true is dropped:
\* no broadcast call is made and nothing is appended to the pending queue.
C2_SuspendedDrops ==
  [][\A s \in Sockets, f \in Frames :
       (Submits(s, f) /\ max /\ max_)
          => (inflight' = inflight /\ messageQueue' = messageQueue)]_vars

\* messages were submitted while delivery was suspended
C2_Witness == max /\ max_ /\ notices.subs >= 1 /\ hasExecuted

\* C3: within one suspension episode the notice is sent at most once.
C3_NoticeAtMostOnce == notices.sent <= 1

\* two or more messages were submitted in the episode, one notice was sent
C3_Witness == max /\ max_ /\ notices.subs >= 2 /\ notices.sent = 1

\* C4: in a suspension episode in which a game message has been submitted,
\* exactly one notice has been sent to the game client.
C4_NoticeExactlyOnce ==
  (max /\ max_ /\ notices.subs >= 1) => notices.delivered = 1

\* C5: with a fallback channel configured, two consecutive rate-limit errors
\* leave max_ true, and a message submitted afterwards makes no broadcast
\* call.
C5_TwoLimitsSuspend ==
  /\ []((config.fallback /\ limitStreak >= 2) => max_)
  /\ [][\A s \in Sockets, f \in Frames :
          (Submits(s, f) /\ config.fallback /\ limitStreak >= 2)
             => inflight' = inflight]_vars

\* C6: with no fallback channel configured, one rate-limit error sets max
\* and max_ together, and the next submitted message makes no broadcast call.
C6_OneLimitSuspends ==
  /\ []((~config.fallback /\ limitStreak >= 1) => (max /\ max_))
  /\ [][\A s \in Sockets, f \in Frames :
          (Submits(s, f) /\ ~config.fallback /\ limitStreak >= 1)
             => inflight' = inflight]_vars

\* C7: with a fallback configured and max false, the first rate-limit error
\* points qqguild at the fallback channel, sets max, leaves max_ false and
\* calls trySend once.
C7_FirstLimitSwitches ==
  [][\A c \in DOMAIN inflight :
       (BroadcastDone(c, "limit") /\ config.fallback /\ ~max)
          => /\ max' /\ ~max_'
             /\ channelList'["qqguild"] = FallbackChannel
             /\ trySendCalls' = 1]_vars

C7_Witness ==
  /\ config.fallback /\ max /\ ~max_ /\ trySendCalls = 1
  /\ channelList["qqguild"] = FallbackChannel

\* C8: the midnight reset timer, on firing, sets max and max_ back to false
\* and restores the primary channel.
C8_ResetClearsFlags ==
  [][\A tr \in BOOLEAN :
       TimerFires("reset", tr)
          => /\ ~max' /\ ~max_'
             /\ channelList'["qqguild"] = tempChannel]_vars

(***************************************************************************)
(* src/lib/index.js, first module: passive (queued) delivery.              *)
(*   passive      config.使用被动方式转发                                  *)
(* A queued message is named by its position in the order of enqueueing    *)
(* (1, 2, ...); 0 stands for the undefined read past the end of the queue. *)
(***************************************************************************)
SinkLimit == 6

BotLookups == {"ok", "undefined"}    \* ctx.bots[`qqguild:${id}`]

LibConfigs ==
  [ enable : BOOLEAN, passive : BOOLEAN, fallback : BOOLEAN,
    trigger : BOOLEAN ]

\* 指令转发MC消息 is on: the frames below then take every branch of the
\* rewriting
InitLib == config \in { c \in LibConfigs : c.trigger } /\ InitState

BumpTo(n, cap) == IF n < cap THEN n + 1 ELSE n

\* the closure's mutable state, as one value
Cur ==
  [ max |-> max, max_ |-> max_, channel |-> channel, bot |-> bot,
    errorCount |-> errorCount, sessionFlag |-> sessionFlag,
    queue |-> messageQueue, pass |-> pass, nsub |-> nsub,
    handed |-> handed, cycle |-> cycle ]

Apply(st) ==
  /\ max' = st.max
  /\ max_' = st.max_
  /\ channel' = st.channel
  /\ bot' = st.bot
  /\ errorCount' = st.errorCount
  /\ sessionFlag' = st.sessionFlag
  /\ messageQueue' = st.queue
  /\ pass' = st.pass
  /\ cycle' = st.cycle
  /\ handed' = st.handed

\* history of the hand-overs: a message given to both paths, or an
\* undefined entry given to bot.broadcast, is a fault
Fault(h, f) == IF h.fault = "none" THEN f ELSE h.fault

Cast(h, id) ==
  IF id = 0 THEN [ h EXCEPT !.fault = Fault(h, "undefined") ]
  ELSE [ h EXCEPT !.cast = @ \cup {id},
                  !.fault = IF id \in h.sent THEN Fault(h, "both") ELSE @ ]

\* the messages that left the queue are forgotten
Forget(h, ids) == [ h EXCEPT !.sent = @ \ ids, !.cast = @ \ ids ]

\* bot.broadcast([channel], messageQueue[i]) is called by trySend
Broadcast(st, id) ==
  [ st EXCEPT
      !.handed = Cast(@, id),
      !.cycle.inorder = @ /\ id = st.cycle.first + st.cycle.ncalls,
      !.cycle.ncalls = BumpTo(@, MaxMsgs + 1) ]

\* messageQueue[j - 1] of the code (0-based there)
QueueAt(q, j) == IF j <= Len(q) THEN q[j] ELSE 0

\* broadcastMessage arms the flush timer
ArmDueAlways(flag) == TRUE

ArmDue(flag) == ~flag

\* the end of trySend's try block
PassEnd(st) ==
  [ st EXCEPT !.pass = NoPass, !.sessionFlag = FALSE, !.queue = <<>>,
              !.handed = Forget(@, 0..MaxMsgs), !.cycle.done = TRUE ]

(***************************************************************************)
(* trySend() up to its first await, and handleError(error).  found is what *)
(* ctx.bots has for the bot.  bot.broadcast on a bot that is not there     *)
(* throws inside the try block, and handleError runs at once.  When the    *)
(* lookup finds no bot and the queue is not empty, trySend and handleError *)
(* call each other without an await until the stack is exhausted; the      *)
(* errorCount++ of every level then runs while the stack unwinds.          *)
(***************************************************************************)
RECURSIVE HandleError(_, _, _)
RECURSIVE TrySend(_, _)

TrySend(st, found) ==
  \* history: a pass that gets to its loop or to its end is counted
  LET st1 == [ st EXCEPT !.cycle.passes = BumpTo(@, 2) ] IN
  IF Len(st.queue) > 0
  THEN IF st.bot = "ok"
       THEN Broadcast([ st1 EXCEPT !.pass = [ n |-> Len(st.queue), i |-> 1,
                                              upto |-> st.nsub ] ],
                      st.queue[1])
       ELSE HandleError([ st EXCEPT !.pass = NoPass ], "sink", found)
  ELSE PassEnd(st1)

HandleError(st, kind, found) ==
  LET st0 == [ st EXCEPT !.cycle.failed = TRUE ] IN
  IF kind = "sink"
  THEN LET st1 == IF st0.errorCount > SinkLimit
                  THEN [ st0 EXCEPT !.max = TRUE, !.max_ = TRUE ]
                  ELSE st0
           st2 == [ st1 EXCEPT !.bot = found ]
       IN IF found # "ok" /\ Len(st.queue) > 0
          \* trySend() throws at once, its catch calls handleError, which
          \* calls trySend(): the calls nest until the stack is exhausted
          THEN [ st2 EXCEPT !.errorCount = SinkLimit + 1, !.pass = NoPass,
                            !.cycle.storm = TRUE ]
          ELSE [ TrySend(st2, found) EXCEPT
                   !.errorCount = BumpTo(@, SinkLimit + 1) ]
  ELSE IF kind = "limit"
  THEN IF config.fallback
       THEN LET st1 == [ st0 EXCEPT !.channel = FallbackChannel ] IN
            IF FirstLimit(st.max)
            THEN TrySend([ st1 EXCEPT !.max = TRUE ], found)
            ELSE [ st1 EXCEPT !.max_ = TRUE ]
       ELSE [ st0 EXCEPT !.max = TRUE, !.max_ = TRUE ]
  ELSE st0

(***************************************************************************)
(* ctx.on('ready') and ctx.on('dispose').  ctx.setTimeout timers are       *)
(* cancelled by the framework when the plugin is disposed.                 *)
(***************************************************************************)
LibReady(found) ==
  /\ phase = "init"
  /\ phase' = "ready"
  /\ clients' = CloseServerClients
  /\ IF config.enable
     THEN bot' = found /\ server' = "listening"
     ELSE bot' = bot /\ server' = CloseServerState
  /\ UNCHANGED << config, channelList, max, max_, hasExecuted, inflight,
                  messageQueue, notices, channel, sessionFlag,
                  triggerSuccess, errorCount, flushTimers, pass, drain,
                  nsub, handed, cycle >>
  /\ UNCHANGED tsVars

LibDispose ==
  /\ phase = "ready"
  /\ phase' = "disposed"
  /\ clients' = CloseServerClients
  /\ server' = CloseServerState
  /\ flushTimers' = 0
  /\ UNCHANGED << config, channelList, max, max_, hasExecuted, inflight,
                  messageQueue, notices, bot, channel, sessionFlag,
                  triggerSuccess, errorCount, pass, drain, nsub, handed,
                  cycle >>
  /\ UNCHANGED tsVars

(***************************************************************************)
(* socket 'message' listener and processWebSocketMessage, up to its first  *)
(* await.  broadcastMessage either appends to the queue (arming the flush  *)
(* timer when none is awaited) or calls bot.broadcast.                     *)
(***************************************************************************)
NewCycle(id) ==
  [ NoCycle EXCEPT !.first = id, !.drained = (drain # "idle") ]

LibFrame(s, m) ==
  /\ s \in 1..Len(clients)
  /\ clients[s].st \in {"open", "closing"}
  /\ LET isText == clients[s].listener /\ IsText(m)
         susp == isText /\ Suspended(max, max_)
         notice == susp /\ NoticeDue(hasExecuted)
         throws == isText /\ ~susp /\ MatchesPattern(m) /\ RewriteThrows(m)
         texts == IF isText /\ ~susp /\ ~throws
                  THEN ForwardText(m, config.trigger) ELSE <<>>
         id == nsub + 1
     IN
     /\ \E out \in IF notice THEN SendOutcomes(clients) ELSE {"none"} :
          hasExecuted' = IF notice /\ out # "threw" THEN TRUE ELSE hasExecuted
     /\ IF texts = <<>>
        THEN /\ UNCHANGED << max, max_, channel, bot, errorCount, sessionFlag,
                             messageQueue, pass, handed, cycle, inflight,
                             nsub, flushTimers >>
        ELSE IF config.passive
        THEN /\ nsub < MaxMsgs
             /\ nsub' = id
             /\ messageQueue' = Append(messageQueue, id)      \* push
             /\ IF ArmDue(sessionFlag)
                THEN /\ sessionFlag' = TRUE
                     /\ flushTimers' = flushTimers + 1        \* ctx.setTimeout
                     /\ cycle' = NewCycle(id)
                ELSE /\ UNCHANGED << sessionFlag, flushTimers >>
                     /\ cycle' = cycle
             /\ UNCHANGED << max, max_, channel, bot, errorCount, pass,
                             handed, inflight >>
        ELSE IF bot = "ok"
        THEN /\ inflight[PrimaryChannel] + inflight[FallbackChannel]
                  + inflight[Absent] < MaxInflight
             \* await bot.broadcast([channel], `${message_}`)
             /\ inflight' = [ inflight EXCEPT ![channel] = @ + 1 ]
             /\ UNCHANGED << max, max_, channel, bot, errorCount, sessionFlag,
                             messageQueue, pass, handed, cycle, nsub,
                             flushTimers >>
        ELSE /\ \E found \in BotLookups : Apply(HandleError(Cur, "sink", found))
             /\ UNCHANGED << inflight, nsub, flushTimers >>
  /\ UNCHANGED << config, channelList, phase, server, clients, notices,
                  triggerSuccess, drain >>
  /\ UNCHANGED tsVars

(***************************************************************************)
(* The broadcast awaited by processWebSocketMessage settles; a rejection   *)
(* runs handleError.                                                       *)
(***************************************************************************)
DirectDone(c, outcome) ==
  /\ inflight[c] > 0
  /\ inflight' = [ inflight EXCEPT ![c] = @ - 1 ]
  /\ IF outcome = "ok"
     THEN UNCHANGED << max, max_, channel, bot, errorCount, sessionFlag,
                       messageQueue, pass, handed, cycle >>
     ELSE \E found \in BotLookups : Apply(HandleError(Cur, outcome, found))
  /\ UNCHANGED << config, channelList, phase, server, clients, hasExecuted,
                  notices, triggerSuccess, flushTimers, drain, nsub >>
  /\ UNCHANGED tsVars

(***************************************************************************)
(* The flush timer's callback: trySend().                                  *)
(***************************************************************************)
FlushTimerFires ==
  /\ flushTimers > 0
  /\ flushTimers' = flushTimers - 1
  /\ \E found \in BotLookups :
        Apply(TrySend([ Cur EXCEPT !.cycle.last = nsub ], found))
  /\ UNCHANGED << config, channelList, phase, server, clients, hasExecuted,
                  notices, inflight, triggerSuccess, drain, nsub >>
  /\ UNCHANGED tsVars

(***************************************************************************)
(* The broadcast awaited by trySend's loop settles: the loop goes on to    *)
(* the next index below the length read at the start, or ends the pass; a  *)
(* rejection leaves the try block for handleError.                         *)
(***************************************************************************)
PassSettles(outcome) ==
  /\ pass.n > 0
  /\ IF outcome = "ok"
     THEN IF pass.i < pass.n
          THEN IF bot = "ok"
               THEN /\ Apply(Broadcast([ Cur EXCEPT !.pass.i = @ + 1 ],
                                       QueueAt(messageQueue, pass.i + 1)))
               ELSE \E found \in BotLookups :
                       Apply(HandleError([ Cur EXCEPT !.pass = NoPass ],
                                         "sink", found))
          ELSE Apply(PassEnd(Cur))
     ELSE \E found \in BotLookups :
             Apply(HandleError([ Cur EXCEPT !.pass = NoPass ], outcome, found))
  /\ UNCHANGED << config, channelList, phase, server, clients, hasExecuted,
                  notices, inflight, triggerSuccess, flushTimers, drain, nsub >>
  /\ UNCHANGED tsVars

(***************************************************************************)
(* ctx.middleware: a chat message on channel ch.  With passive delivery    *)
(* and a flush awaited, it sends the queue through session.send, one       *)
(* message per await, shifting the queue after each.  The rest of the      *)
(* middleware relays the chat message to the game and touches none of the  *)
(* state below.                                                            *)
(***************************************************************************)
\* session.send(messageQueue[0]) is called by the middleware
Send(h, id) ==
  [ h EXCEPT !.sent = @ \cup {id},
             !.fault = IF id \in h.cast THEN Fault(h, "both") ELSE @ ]

DrainDue == config.passive /\ sessionFlag /\ ~triggerSuccess

LibMiddleware(ch) ==
  /\ phase = "ready"
  /\ server # "null" /\ Len(clients) > 0 /\ ch = channel
  /\ IF DrainDue /\ Len(messageQueue) > 0
     THEN /\ triggerSuccess' = TRUE
          /\ drain' = "sending"              \* session.send(messageQueue[0])
          /\ handed' = Send(handed, messageQueue[1])
          /\ cycle' = [ cycle EXCEPT !.drained = TRUE ]
     ELSE UNCHANGED << triggerSuccess, drain, handed, cycle >>
  /\ UNCHANGED << config, channelList, phase, server, clients, max, max_,
                  hasExecuted, inflight, messageQueue, notices, bot, channel,
                  sessionFlag, errorCount, flushTimers, pass, nsub >>
  /\ UNCHANGED tsVars

\* messageQueue.shift()
Shift(q) == IF Len(q) > 0 THEN Tail(q) ELSE q

\* the awaited session.send settles
DrainSettles(outcome) ==
  /\ drain = "sending"
  /\ IF outcome = "ok"
     THEN LET rest == Shift(messageQueue)
              left == Forget(handed, IF Len(messageQueue) > 0
                                     THEN {messageQueue[1]} ELSE {})
          IN
          /\ messageQueue' = rest
          /\ IF Len(rest) > 0
             THEN /\ handed' = Send(left, rest[1])
                  /\ UNCHANGED << drain, triggerSuccess >>
             ELSE /\ drain' = "idle"
                  /\ triggerSuccess' = FALSE
                  /\ handed' = left
     ELSE /\ drain' = "idle"
          /\ UNCHANGED << messageQueue, triggerSuccess, handed >>
  /\ UNCHANGED << config, channelList, phase, server, clients, max, max_,
                  hasExecuted, inflight, notices, bot, channel, sessionFlag,
                  errorCount, flushTimers, pass, nsub, cycle >>
  /\ UNCHANGED tsVars

\* server.on('connection')
LibConnect(tok) == Len(clients) < LibSockets /\ Connect(tok)

NextLib ==
  \/ \E found \in BotLookups : LibReady(found)
  \/ LibDispose
  \/ \E tok \in Tokens : LibConnect(tok)
  \/ \E s \in 1..LibSockets : SocketClosed(s)
  \/ \E s \in 1..LibSockets, f \in Frames : LibFrame(s, f)
  \/ \E c \in {PrimaryChannel, FallbackChannel}, o \in Outcomes :
        DirectDone(c, o)
  \/ FlushTimerFires
  \/ \E o \in Outcomes : PassSettles(o)
  \/ \E ch \in {PrimaryChannel, FallbackChannel} : LibMiddleware(ch)
  \/ \E o \in {"ok", "threw"} : DrainSettles(o)

SpecLib == InitLib /\ [][NextLib]_vars

LibTypeOK ==
  /\ bot \in {"null", "undefined", "ok"}
  /\ channel \in {PrimaryChannel, FallbackChannel}
  /\ sessionFlag \in BOOLEAN /\ triggerSuccess \in BOOLEAN
  /\ errorCount \in 0..(SinkLimit + 1)
  /\ flushTimers \in 0..MaxMsgs
  /\ pass.i <= pass.n /\ pass.n <= MaxMsgs
  /\ drain \in {"idle", "sending"}
  /\ nsub \in 0..MaxMsgs
  /\ handed.sent \cup handed.cast \subseteq 1..MaxMsgs
  /\ handed.fault \in {"none", "both", "undefined"}
  /\ (~config.passive => (pass = NoPass /\ messageQueue = <<>>))
  /\ (drain = "sending" => triggerSuccess)

(***************************************************************************)
(* Claims about passive delivery in src/lib/index.js, checked under        *)
(* SpecLib.  A flush cycle starts when broadcastMessage arms the timer;    *)
(* the messages submitted before the delay elapses are cycle.first ..      *)
(* cycle.last.                                                             *)
(***************************************************************************)
\* the number of messages submitted before the flush timer fired
Batch == cycle.last - cycle.first + 1

\* one pass made one broadcast call per message of the batch, in order
OnePassInOrder ==
  cycle.passes = 1 /\ cycle.inorder /\ cycle.ncalls = Batch

C10_LateMessageKept ==
  [][\A o \in Outcomes :
       PassSettles(o)
          => /\ (pass'.n > 0 /\ pass'.i = pass.i + 1)
                   => QueueAt(messageQueue, pass'.i) <= pass.upto
             /\ \A k \in 1..Len(messageQueue) :
                   messageQueue[k] > pass.upto
                      => \E j \in 1..Len(messageQueue') :
                            messageQueue'[j] = messageQueue[k]]_vars

\* C11: when the flush pass that the timer started has ended, with every
\* broadcast resolved or with one of them rejected, sessionFlag is false and
\* the pending queue is empty (so the next message arms a new timer).
C11_PassEndsIdle ==
  [][\A o \in Outcomes :
       (PassSettles(o) /\ pass'.n = 0)
          => (~sessionFlag' /\ messageQueue' = <<>>)]_vars

\* C12: every queued message is handed to the chat platform exactly once,
\* also when the middleware's drain and the flush pass interleave: none is
\* given both to session.send and to bot.broadcast, and the flush pass never
\* broadcasts an undefined queue entry.
C12_HandedOnce == handed.fault = "none"

(***************************************************************************)
(* SpecFrames: src/src/index.ts, the message listener and                  *)
(* processWebSocketMessage on one authenticated connection, from the       *)
(* states the plugin is in after 'ready' and the connection's handshake,   *)
(* over every message of up to MaxParts parts, with the handler's result   *)
(* recorded.                                                               *)
(***************************************************************************)
Parts == { "[S]", "<A>", TriggerWord }

ShortMsgs == UNION { [ 1..n -> Parts ] : n \in 1..MaxParts }

AllFrames == ShortMsgs \cup Frames

InitFrames ==
  /\ config \in { c \in Configs : c.enable /\ ~c.schedule }
  /\ channelList = [ p \in Platforms |->
                       IF p = "qqguild" THEN PrimaryChannel ELSE Absent ]
  /\ phase = "ready"
  /\ server = "listening"
  /\ clients = << [ st |-> "open", ok |-> TRUE, listener |-> TRUE ] >>
  \* 'ready' found a bot, or none
  /\ max \in BOOLEAN
  /\ max_ = max
  /\ hasExecuted = FALSE
  /\ timerId = "none"
  /\ timers = [ k \in TimerKinds |-> 0 ]
  /\ inflight = [ c \in {PrimaryChannel, FallbackChannel, Absent} |-> 0 ]
  /\ messageQueue = <<>>
  /\ onceDone = {}
  /\ notices = NoNotices
  /\ limitStreak = 0
  /\ trySendCalls = 0
  /\ result = NoResult
  /\ chats = 0
  /\ bot = "null"
  /\ channel = PrimaryChannel
  /\ sessionFlag = FALSE
  /\ triggerSuccess = FALSE
  /\ errorCount = 0
  /\ flushTimers = 0
  /\ pass = NoPass
  /\ drain = "idle"
  /\ nsub = 0
  /\ handed = [ sent |-> {}, cast |-> {}, fault |-> "none" ]
  /\ cycle = NoCycle

NextFrames == \E f \in AllFrames : Frame(1, f)

SpecFrames == InitFrames /\ [][NextFrames]_vars

\* a message of the form "[<tag>] <name> rest..."
Shaped(f) == Len(f) >= 2 /\ IsTagPart(f[1]) /\ IsNamePart(f[2])

\* C13: with 指令转发MC消息 enabled and delivery not suspended, a game
\* message of the form "[<tag>] <name> rest..." is handed to the broadcast
\* iff its third part is the trigger word; otherwise no broadcast call is
\* made for it.
C13_TriggerGate ==
  [][\A f \in AllFrames :
       (config.trigger /\ ~Suspended(max, max_) /\ Shaped(f) /\ Frame(1, f))
          => ((result'.sunk # <<>>) <=> (Len(f) > 2 /\ f[3] = TriggerWord))]_vars

\* "[S] <A> pd hi" has been forwarded with trigger mode enabled
C13_Witness ==
  /\ config.trigger
  /\ result.frame = << "[S]", "<A>", TriggerWord, "hi" >>
  /\ result.sunk = << << "[S]", "A said: ", "hi" >> >>

\* the parts after the name that the rewriting keeps
Rest(f) == SubSeq(f, IF config.trigger THEN 4 ELSE 3, Len(f))

\* C14 as stated: a forwarded message of the form "[<tag>] <name> rest..."
\* is broadcast as "<name>说: rest...": the name, "说: " and the remaining
\* parts, without the leading "[<tag>]" part.
C14_RewrittenWithoutTag ==
  [][\A f \in AllFrames :
       (Shaped(f) /\ Frame(1, f) /\ result'.sunk # <<>>)
          => result'.sunk = << << "A said: " >> \o Rest(f) >>]_vars

\* C14 amended: a forwarded message of the form "[<tag>] <name> rest..." is
\* broadcast as "[<tag>] <name>说: rest...": the leading "[<tag>]" part is
\* kept, then come the name, "说: " and the remaining parts (without the
\* trigger word when 指令转发MC消息 is enabled).
C14_RewrittenWithTag ==
  [][\A f \in AllFrames :
       (Shaped(f) /\ Frame(1, f) /\ result'.sunk # <<>>)
          => result'.sunk = << << f[1], "A said: " >> \o Rest(f) >>]_vars

\* "[S] <A> hi" has been forwarded with trigger mode disabled
C14_Witness ==
  /\ ~config.trigger
  /\ result.frame = << "[S]", "<A>", "hi" >>
  /\ result.sunk = << << "[S]", "A said: ", "hi" >> >>

\* C15: with 指令转发MC消息 disabled, a message of the form
\* "[<tag>] <name> rest" ("[Survival] <Alice> hi") is handed to the
\* broadcast unmodified; with it enabled and the trigger word absent from
\* the message, no broadcast is made.
C15_DisabledUnmodified ==
  [][\A f \in AllFrames :
       (Shaped(f) /\ Len(f) > 2 /\ ~Suspended(max, max_) /\ Frame(1, f))
          => /\ ~config.trigger => result'.sunk = << f >>
             /\ (config.trigger /\ \A i \in 1..Len(f) : f[i] # TriggerWord)
                  => result'.sunk = <<>>]_vars

\* C16: a game message that does not match the "[<tag>] <name>" pattern is
\* handed to the broadcast verbatim, with trigger mode enabled or not,
\* provided delivery is not suspended.
C16_NonMatchingVerbatim ==
  [][\A f \in AllFrames :
       (IsText(f) /\ ~MatchesPattern(f) /\ ~Suspended(max, max_)
          /\ Frame(1, f))
          => result'.sunk = << f >>]_vars

\* "pd [S]" has been forwarded as it is with trigger mode enabled
C16_Witness ==
  /\ config.trigger
  /\ result.frame = << TriggerWord, "[S]" >>
  /\ result.sunk = << result.frame >>

\* C17: a game message that matches the "[<tag>] <name>" pattern but has
\* fewer than three parts is dropped silently: no broadcast call, nothing
\* enqueued, max and max_ unchanged, and, delivery not being suspended,
\* nothing sent back and no error raised.
C17_ShortMatchDropped ==
  [][\A f \in AllFrames :
       (MatchesPattern(f) /\ Len(f) < 3 /\ Frame(1, f))
          => /\ result'.sunk = <<>>
             /\ inflight' = inflight
             /\ messageQueue' = messageQueue
             /\ max' = max /\ max_' = max_
             /\ ~Suspended(max, max_)
                  => result' = [ NoResult EXCEPT !.frame = f ]]_vars

\* "[S] <A>" has been received and dropped while delivery was not suspended
C17_Witness ==
  /\ ~Suspended(max, max_)
  /\ result = [ NoResult EXCEPT !.frame = << "[S]", "<A>" >> ]

\* C18: a text frame that is not valid JSON is discarded and the failure is
\* handled inside the message handler: no exception leaves the handler (the
\* connection stays open and the delivery state is unchanged).
C18_BadJsonHandled == (result.frame = BadJson) => result.error # "escaped"

\* C19: a binary frame from an authenticated client is never passed
\* downstream: processWebSocketMessage is not called for it (no broadcast
\* call, nothing enqueued, and under suspension no submission counted and
\* no notice sent).
C19_BinaryDiscarded ==
  [][Frame(1, Binary)
       => /\ result' = [ NoResult EXCEPT !.frame = Binary ]
          /\ inflight' = inflight
          /\ messageQueue' = messageQueue
          /\ notices' = notices
          /\ hasExecuted' = hasExecuted]_vars

\* a binary frame has arrived while delivery was suspended and the notice
\* was still unsent
C19_Witness ==
  /\ result.frame = Binary
  /\ Suspended(max, max_)
  /\ ~hasExecuted

(***************************************************************************)
(* SpecChat: src/src/index.ts, the chat middleware and the connections     *)
(* of the game side: chat events arrive and resume, connections are        *)
(* opened and closed, and game frames arrive on the first connection.      *)
(***************************************************************************)
ChatConfigs ==
  [ enable : {TRUE}, fallback : {FALSE}, schedule : {FALSE},
    trigger : {FALSE}, stopT : {0}, startT : {1},
    chatTrigger : BOOLEAN, shortLink : ShortLinkModes ]

InitChat ==
  /\ config \in ChatConfigs
  /\ channelList = [ p \in Platforms |->
                       IF p = "qqguild" THEN PrimaryChannel ELSE Absent ]
  /\ phase = "ready"
  /\ server = "listening"
  /\ clients = << [ st |-> "open", ok |-> TRUE, listener |-> TRUE ] >>
  \* 'ready' found a bot, or none
  /\ max \in BOOLEAN
  /\ max_ = max
  /\ hasExecuted = FALSE
  /\ timerId = "none"
  /\ timers = [ k \in TimerKinds |-> 0 ]
  /\ inflight = [ c \in {PrimaryChannel, FallbackChannel, Absent} |-> 0 ]
  /\ messageQueue = <<>>
  /\ onceDone = {}
  /\ notices = NoNotices
  /\ limitStreak = 0
  /\ trySendCalls = 0
  /\ result = NoResult
  /\ chats = 0
  /\ bot = "null"
  /\ channel = PrimaryChannel
  /\ sessionFlag = FALSE
  /\ triggerSuccess = FALSE
  /\ errorCount = 0
  /\ flushTimers = 0
  /\ pass = NoPass
  /\ drain = "idle"
  /\ nsub = 0
  /\ handed = [ sent |-> {}, cast |-> {}, fault |-> "none" ]
  /\ cycle = NoCycle

\* the chat messages of one word
OneWordMsgs == { msg \in ChatMsgs : Len(msg) = 1 }

NextChat ==
  \/ \E ch \in ChatChannels : ChatArrives(ch)
  \/ \E msg \in OneWordMsgs, net \in NetOutcomes : ChatResumes(msg, net)
  \/ \E tok \in Tokens : Connect(tok)
  \/ \E s \in Sockets : SocketClosed(s)
  \/ \E f \in Frames : Frame(1, f)

SpecChat == InitChat /\ [][NextChat]_vars

(***************************************************************************)
(* SpecNormalize: the chat middleware alone, on every chat message of up   *)
(* to MaxWords words, with one game client connected.                      *)
(***************************************************************************)
NextNormalize ==
  \/ \E ch \in ChatChannels : ChatArrives(ch)
  \/ \E msg \in ChatMsgs, net \in NetOutcomes : ChatResumes(msg, net)

SpecNormalize == InitChat /\ [][NextNormalize]_vars

\* C20: a send to the game client is skipped without error whenever no
\* client is connected at the moment of sending, also when the only client
\* has disconnected while the chat handler was suspended in processMessage
\* after its clients.size > 0 test: with server.clients empty, no handler
\* has called client.send and met an exception.
C20_NoClientNoError == (Len(clients) = 0) => result.sent # "threw"

\* C21: with 指令转发频道消息 enabled, a chat message of the tracked channel
\* is given to the game client only if the first word of its first element
\* is the trigger command 频道内触发指令; with the mode disabled the test
\* lets every message through (each one that was normalized is given to
\* sendMessageToClients).
C21_ChatTriggerGate ==
  /\ (config.chatTrigger /\ result.chat.packet # <<>>)
       => (result.chat.msg # ImgMsg /\ Head(result.chat.msg) = ChatTrigger)
  /\ (~config.chatTrigger /\ result.chat.msg # <<>>
         /\ result.error # "resolve")
       => result.chat.packet # <<>>

\* "mc hi" has been sent to the game as "hi" with the mode enabled
C21_Witness ==
  /\ config.chatTrigger
  /\ result.chat.msg = << ChatTrigger, "hi" >>
  /\ result.chat.packet = << << "hi" >> >>
  /\ result.sent = "delivered"

\* a link of the message appears in the packet as it was written
RawLinkIn(msg, text) ==
  \E i \in 1..Len(text) : text[i] \in Urls \cup { "IMG" }

\* C29: when the short-link request fails with 短链接服务 = 'true' (the API
\* answers error # 0, or the HTTP call fails), the normalization of the chat
\* message fails: no packet for that message is given to the game client,
\* and no packet made in that mode carries the raw link.
C29_ResolverFailureFails ==
  /\ (config.shortLink = "true"
        /\ result.chat.net \in { "apierror", "httpfail" })
       => (result.chat.packet = <<>> /\ result.sent = "none")
  /\ (config.shortLink = "true" /\ result.chat.packet # <<>>)
       => ~RawLinkIn(result.chat.msg, result.chat.packet[1])

\* "hi U1" has met a failed short-link request and was not sent
C29_Witness ==
  /\ config.shortLink = "true"
  /\ result.chat.msg = << "hi", "U1" >>
  /\ result.chat.net = "apierror"
  /\ result.error = "resolve"
  /\ result.chat.packet = <<>>

\* how many words of a text are in a set
Count(text, S) == Cardinality({ i \in 1..Len(text) : text[i] \in S })

\* C30: with 短链接服务 = 'delete' the resolver makes no network call and
\* answers the placeholder "省略" for every link; with the service disabled
\* it makes no network call and answers the link unchanged.
C30_RedactAndDisabled ==
  LET c == result.chat IN
  /\ (config.shortLink = "delete" /\ c.msg # <<>>)
       => /\ ~c.called
          /\ result.error # "resolve"
          /\ c.packet # <<>>
               => /\ Count(c.packet[1], { "omitted" }) = Len(Links(c.msg))
                  /\ ~RawLinkIn(c.msg, c.packet[1])
  /\ (config.shortLink = "false" /\ c.msg # <<>>)
       => /\ ~c.called
          /\ result.error # "resolve"
          /\ c.packet # <<>>
               => /\ Count(c.packet[1], { "omitted", "short" }) = 0
                  /\ \A i \in 1..Len(Links(c.msg)) :
                        Count(c.packet[1], { Links(c.msg)[i] }) = 1

\* "U1 U2" has been sent with both links redacted
C30_Witness ==
  /\ config.shortLink = "delete"
  /\ result.chat.msg = << "U1", "U2" >>
  /\ result.chat.packet # <<>>
  /\ Count(result.chat.packet[1], { "omitted" }) = 2

\* C22: when closeServer has returned, every client connection that was
\* open has been terminated and the listening socket is closed, whatever
\* the number of connected clients (and without a server it does nothing).
C22_AllClientsTerminated ==
  /\ (server = "closed")
       => \A i \in 1..Len(clients) : clients[i].st # "open"
  /\ (phase = "disposed") => server # "listening"

\* C23: after the dispose event no scheduler timer and no midnight-reset
\* timer remains armed, also when the server was never started and when
\* several timers had been armed.
C23_DisposeCancelsTimers ==
  (phase = "disposed") => Pending(timers, timerId) = 0

(***************************************************************************)
(* SpecSched: src/src/index.ts with the daily schedule enabled             *)
(* (启用定时任务 = true), the handlers' results recorded.                  *)
(***************************************************************************)
SchedConfigs == { c \in Configs : c.schedule /\ ~c.trigger /\ ~c.fallback }

InitSched ==
  /\ config \in SchedConfigs
  /\ channelList = [ p \in Platforms |->
                       IF p = "qqguild" THEN PrimaryChannel ELSE Absent ]
  /\ phase = "init"
  /\ server = "null"
  /\ clients = <<>>
  /\ max = FALSE
  /\ max_ = FALSE
  /\ hasExecuted = FALSE
  /\ timerId = "none"
  /\ timers = [ k \in TimerKinds |-> 0 ]
  /\ inflight = [ c \in {PrimaryChannel, FallbackChannel, Absent} |-> 0 ]
  /\ messageQueue = <<>>
  /\ onceDone = {}
  /\ notices = NoNotices
  /\ limitStreak = 0
  /\ trySendCalls = 0
  /\ result = NoResult
  /\ chats = 0
  /\ bot = "null"
  /\ channel = PrimaryChannel
  /\ sessionFlag = FALSE
  /\ triggerSuccess = FALSE
  /\ errorCount = 0
  /\ flushTimers = 0
  /\ pass = NoPass
  /\ drain = "idle"
  /\ nsub = 0
  /\ handed = [ sent |-> {}, cast |-> {}, fault |-> "none" ]
  /\ cycle = NoCycle

NextSched ==
  \/ \E bots \in BOOLEAN : Ready(bots)
  \/ Dispose
  \/ \E p \in Platforms : LoginAdded(p)
  \/ \E p \in Platforms : LoginRemoved(p)
  \/ Connect(ConfigToken)
  \/ SocketClosed(1)
  \/ \E f \in Frames : Frame(1, f)
  \/ \E c \in {PrimaryChannel, FallbackChannel, Absent}, o \in Outcomes :
        BroadcastDone(c, o)
  \/ \E k \in TimerKinds, tr \in BOOLEAN : TimerFires(k, tr)

SpecSched == InitSched /\ [][NextSched]_vars

\* the scheduler timers that are armed
SchedulerTimers ==
  timers["start"] + timers["stop"]
    + (IF timerId \in { "start", "stop" } THEN 1 ELSE 0)

\* C24: at most one scheduler timer is outstanding at any time: every call
\* of scheduleTasks (from ready, from login-added or from a firing timer)
\* invalidates the timer armed before.
C24_OneSchedulerTimer == SchedulerTimers <= 1

\* the time from now to the next occurrence of the time of day t
UntilNext(now, t) == IF t > now THEN t - now ELSE t + DaySlots - now

\* C25: whenever scheduleTasks arms the stop timer, the delay is the time
\* from now to the next occurrence of the configured stop time of day:
\* strictly positive and at most one day.
C25_StopDelay ==
  (result.armed.kind = "stop")
     => /\ result.armed.delay = UntilNext(result.armed.now, config.stopT)
        /\ result.armed.delay > 0
        /\ result.armed.delay <= DaySlots

\* now lies in the blackout, from the stop time to the following start time
InBlackout(now, stopT, startT) ==
  IF stopT <= startT THEN stopT <= now /\ now <= startT
  ELSE now >= stopT \/ now <= startT

\* C26: for every now and every pair of boundaries, scheduleTasks arms the
\* start timer exactly when now lies inside the blackout, also when the
\* blackout spans midnight, and the stop timer otherwise.
C26_BranchMatchesBlackout ==
  (result.armed.kind # "none")
     => (result.armed.kind = "start"
           <=> InBlackout(result.armed.now, config.stopT, config.startT))

\* C27: with the daily schedule enabled, delivery is gated during the
\* blackout: while the start timer is armed (from the stop boundary, or
\* from a start inside the blackout, until the start boundary) a game
\* message is broadcast to no channel.
C27_BlackoutGated ==
  ((timerId = "start" \/ timers["start"] > 0) /\ result.sunk # <<>>)
     => Channels(channelList) = {}

\* C28: on a sink-not-initialized error, with a non-empty queue and a sink
\* that stays unavailable, the handleError / trySend cycle makes a bounded
\* number of broadcast attempts and then stops: the two never call each
\* other without end.
C28_BoundedRetry == ~cycle.storm


\* the empty text: no word but the empty one
EmptyText == << "" >>

\* C31: with 指令转发频道消息 enabled, processMessage returns the part of
\* the flattened text after its first space ("mc hello world" gives
\* "hello world"), and the empty string when the flattened text has no
\* space: the text of every packet made in that mode is the flattened text
\* without its first word.
C31_PrefixStripped ==
  (config.chatTrigger /\ result.chat.packet # <<>>)
    => LET flat == ProcessElement(result.chat.msg, config.shortLink, "short")
       IN  result.chat.packet[1] =
             IF Len(flat) > 1 THEN SubSeq(flat, 2, Len(flat)) ELSE EmptyText


\* the connections that passed the token test, are open, and have their
\* frames handled
RelaySessions ==
  { i \in 1..Len(clients) :
      clients[i].st = "open" /\ clients[i].ok /\ clients[i].listener }

\* C32: in every reachable state at most one relay session exists: the
\* number of authenticated, open client connections on which inbound frames
\* are processed is 0 or 1.
C32_OneRelaySession == Cardinality(RelaySessions) <= 1


\* C33: with a fallback channel configured, the primary platform is taken
\* out of the broadcast targets (the fallback counted as exhausted) only
\* when a broadcast addressed to the fallback channel has failed on the
\* rate limit: two broadcasts to the primary channel that are both in
\* flight when the primary meets its limit count as one failure of the
\* primary.
C33_ExhaustedByFallbackFailure ==
  [][(/\ config.fallback
      /\ \E c \in DOMAIN inflight : inflight'[c] < inflight[c]
      /\ channelList["qqguild"] # Absent
      /\ channelList'["qqguild"] = Absent)
       => inflight'[FallbackChannel] < inflight[FallbackChannel]]_vars


\* C34: when no bot is online as 'ready' fires, delivery starts fully
\* suspended (max and max_ both true); a later 'login-added' enables it
\* again, so that a game message submitted after the login is broadcast
\* and not dropped.
C34_LoginResumes ==
  [][/\ (Ready(FALSE) /\ config.enable) => (max' /\ max_')
     /\ (/\ phase = "ready"
         /\ Suspended(max, max_)
         /\ "login-added" \notin onceDone
         /\ "login-added" \in onceDone')
          => ~Suspended(max', max_')]_vars


\* the time of day a scheduler timer is due at: startTime for the start
\* timer, stopTime (of the next day) for the stop timer
DueAt(kind) == IF kind = "start" THEN config.startT ELSE config.stopT

\* C35: the scheduler timers alternate.  Each time the start timer fires
\* (at the time it is due) the primary channel is put back among the
\* broadcast targets and the next timer armed is the stop timer; each time
\* the stop timer fires the platform is taken out and the next timer armed
\* is the start timer: the same boundary never fires twice in a row.
C35_TimersAlternate ==
  [][\A k \in { "start", "stop" }, tr \in BOOLEAN :
       (TimerFires(k, tr) /\ result'.armed.now = DueAt(k))
          => /\ channelList'["qqguild"] =
                  (IF k = "start" THEN tempChannel ELSE Absent)
             /\ result'.armed.kind = (IF k = "start" THEN "stop" ELSE "start")
    ]_vars


\* C36: in every reachable state max_ = true implies max = true (the
\* fallback is counted as exhausted only while it is in use): no sequence
\* of ready, rate-limit, sink and reset events leaves max_ true and max
\* false.
C36_ExhaustedImpliesUsing == max_ => max

\* a second rate-limit error, with the fallback in use, has set max_
C36_Witness ==
  /\ config.fallback /\ max /\ max_
  /\ channel = FallbackChannel
  /\ errorCount <= SinkLimit

====
